---- MODULE Spec2Model ----
(***************************************************************************)
(* The CausaDB client of src/src/causadb.ts as a state machine.           *)
(*                                                                         *)
(* State: every client's tokenSecret field, and for every caller the call  *)
(* it has made last: a call in flight (waiting for the response to a       *)
(* request) or a finished one with what it returned or threw.  A caller is *)
(* one sequential flow of the program (`await client.op(...)` after        *)
(* `await client.op(...)`); several callers run interleaved, as promises   *)
(* on one event loop do: a step is one synchronous stretch of code, from a *)
(* call or a response up to the next await.                                *)
(*                                                                         *)
(* The service is the environment: it answers a request with any status,   *)
(* except that a request without a token is refused.                       *)
(*                                                                         *)
(* tokenSecret is the only state two calls share, and setToken is the only *)
(* operation that writes it; every other operation reads it when it builds *)
(* a request and touches nothing else that outlives the call.  The model   *)
(* therefore runs one flow that makes any call (Main) beside flows that    *)
(* authenticate: every interleaving of a call with writes of the token is  *)
(* there, and two readers in flight at once, which cannot affect each      *)
(* other, are not.                                                         *)
(***************************************************************************)
EXTENDS Integers, Sequences, FiniteSets

VARIABLES tokenSecret, accepted, calls

vars == <<tokenSecret, accepted, calls>>

----------------------------------------------------------------------------
(* Bounds and input domains *)

\* The longest listing the service returns.
MaxList == 2

Clients == {"c1", "c2"}
\* The flows of the program, and those of them that make calls other than
\* setToken.
Callers == {"t1", "t2"}
Main == {"t1"}
Secrets == {"s1", "s2"}
Names == {"a", "b"}

\* tokenSecret of a client that has not authenticated (causadb.ts:24).
null == "null"
\* The value of a field that does not apply to a call.
none == "-"

\* The status the account check must have (causadb.ts:41).
HTTP_OK == 200

\* What a request can end in: 0 is no response at all (a network error),
\* 200 and 204 are success statuses, 401 is an error status.
Statuses == {0, 200, 204, 401}

SeqsUpTo(S, n) == UNION {[1..k -> S] : k \in 0..n}

\* The bodies of GET /models and GET /data, as the sequence of their names.
Listings == SeqsUpTo(Names, MaxList)

----------------------------------------------------------------------------
(* The transport and the service *)

\* axios settles a request by its status: the promise resolves on 2xx
\* and rejects on anything else (its default validateStatus).
Resolves(status) == status >= 200 /\ status < 300

\* The statuses the service can answer a request carrying `token` with:
\* a request without a token is refused.
ServiceAnswers(token) ==
    IF token = null THEN {s \in Statuses : ~Resolves(s)} ELSE Statuses

----------------------------------------------------------------------------
(* Results *)

Pending == [type |-> "pending"]
ReturnedTrue == [type |-> "true"]
Returned(h) == [type |-> "handle", handle |-> h]
ReturnedList(hs) == [type |-> "list", handles |-> hs]
Thrown(msg) == [type |-> "error", message |-> msg]
\* An async function that ends without a return statement.
ReturnedUndefined == [type |-> "undefined"]

\* The messages of the errors the client throws.
InvalidToken == "Invalid token"
ServerRequestFailed == "CausaDB server request failed"
ConnectFailed == "CausaDB client failed to connect to server"
\* The rejection of axios.get itself, which setToken does not catch.
AxiosError == "Request failed"
\* The failure of the Model factory's create call.
FactoryFailed == "ServerRequestError"

\* new Data(name, client), new Model(name, client): a name and the client.
DataHandle(name, c) == [kind |-> "Data", name |-> name, client |-> c]
ModelHandle(name, c) == [kind |-> "Model", name |-> name, client |-> c]

----------------------------------------------------------------------------
(* Calls *)

Idle ==
    [op |-> "none", client |-> none, arg |-> none, pc |-> "idle",
     headers |-> none, factory |-> none, listing |-> <<>>, order |-> <<>>,
     prior |-> FALSE, sent |-> 0, settled |-> none, status |-> 0,
     result |-> Pending]

\* A call that has just returned or thrown: its caller runs next, before any
\* other response is handled (the continuation of an await is a microtask).
Returning(t) == calls[t].pc = "done"

\* Caller t can make a call: it has none in flight, and no other caller is in
\* the middle of taking a result.
Free(t) ==
    /\ calls[t].pc \in {"idle", "done"}
    /\ \A u \in Callers \ {t} : ~Returning(u)

\* A response can be handled: no caller is in the middle of taking a result.
Quiet == \A u \in Callers : ~Returning(u)

\* A call of `op` on client c, started: one request sent, the rest as Idle.
Started(op, c, arg, pc, headers) ==
    [Idle EXCEPT !.op = op, !.client = c, !.arg = arg, !.pc = pc,
                 !.headers = headers, !.sent = 1]

\* What the code sees of a response when it does not read its status: the
\* promise of axios.get resolved or rejected.
Settled(status) == IF Resolves(status) THEN "resolved" ELSE "rejected"

\* The headers of a call's own request, kept while the request is unanswered
\* and when it was rejected.
Answered(call, status) ==
    [call EXCEPT !.settled = Settled(status),
                 !.headers = IF Resolves(status) THEN none ELSE @]

\* A call finished by the response `status` with `result`.
Finished(call, status, result) ==
    [call EXCEPT !.pc = "done", !.settled = Settled(status), !.result = result,
                 !.factory = none]

\* const headers = { 'token': this.tokenSecret }
HeadersShared(c) == tokenSecret[CHOOSE d \in Clients : TRUE]
Headers(c) == tokenSecret[c]

Init ==
    /\ tokenSecret = [c \in Clients |-> null]
    /\ accepted = [c \in Clients |-> {}]
    /\ calls = [t \in Callers |-> Idle]

\* The caller takes the result and makes no further call for now.
Return(t) ==
    /\ Returning(t)
    /\ calls' = [calls EXCEPT ![t] = Idle]
    /\ UNCHANGED <<tokenSecret, accepted>>

----------------------------------------------------------------------------
(* setToken *)

\* setToken(tokenSecret): the account check is sent with the secret itself.
SetToken(t, c, secret) ==
    /\ Free(t)
    /\ calls' = [calls EXCEPT ![t] = Started("setToken", c, secret, "account", secret)]
    /\ UNCHANGED <<tokenSecret, accepted>>

\* What setToken leaves in the clients' tokenSecret fields once the account
\* check has answered `status`: the secret on 200, what was there otherwise.
AfterAccountNoStore(tok, c, secret, status) == tok
AfterAccountShared(tok, c, secret, status) ==
    IF status = HTTP_OK THEN [d \in Clients |-> secret] ELSE tok
AfterAccountReset(tok, c, secret, status) ==
    IF status = HTTP_OK THEN [tok EXCEPT ![c] = secret] ELSE [tok EXCEPT ![c] = null]
AfterAccount(tok, c, secret, status) ==
    IF status = HTTP_OK THEN [tok EXCEPT ![c] = secret] ELSE tok

\* What setToken returns or throws: axios rejects on a status outside 2xx and
\* setToken has no catch; a 2xx status other than 200 reaches the else branch.
SetTokenResult(status) ==
    IF ~Resolves(status) THEN Thrown(AxiosError)
    ELSE IF status = HTTP_OK THEN ReturnedTrue
    ELSE Thrown(InvalidToken)

\* response.status as setToken reads it: there is a response only when
\* axios.get resolved.
ResponseStatus(status) == IF Resolves(status) THEN status ELSE 0

AccountResponse(t, status) ==
    LET call == calls[t] IN
    /\ Quiet
    /\ call.pc = "account"
    /\ status \in ServiceAnswers(call.headers)
    /\ tokenSecret' = AfterAccount(tokenSecret, call.client, call.arg, status)
    /\ accepted' = IF status = HTTP_OK
                   THEN [accepted EXCEPT ![call.client] = @ \cup {call.arg}]
                   ELSE accepted
    /\ calls' = [calls EXCEPT ![t] =
                    Finished([call EXCEPT !.status = ResponseStatus(status)], status,
                             SetTokenResult(status))]

----------------------------------------------------------------------------
(* The Model factory and createModel, addData *)

\* Model.create(name, client) sends its create call with the client's token
\* of that moment.
FactoryHeaders(c) == tokenSecret[c]

\* What Model.create returns or throws once the create call has answered.
FactoryResult(name, c, status) ==
    IF Resolves(status) THEN Returned(ModelHandle(name, c)) ELSE Thrown(FactoryFailed)

\* createModel(modelName): return await Model.create(modelName, this)
CreateModel(t, c, name) ==
    /\ Free(t)
    /\ calls' = [calls EXCEPT ![t] =
                    [Started("createModel", c, name, "create", none)
                        EXCEPT !.factory = FactoryHeaders(c)]]
    /\ UNCHANGED <<tokenSecret, accepted>>

\* addData(dataName): return new Data(dataName, this), no request.
AddDataResult(name, c) == Returned(DataHandle(name, c))

AddData(t, c, name) ==
    /\ Free(t)
    /\ calls' = [calls EXCEPT ![t] =
                    [Idle EXCEPT !.op = "addData", !.client = c, !.arg = name,
                                 !.pc = "done", !.result = AddDataResult(name, c)]]
    /\ UNCHANGED <<tokenSecret, accepted>>

----------------------------------------------------------------------------
(* getModel *)

\* Whether caller t's last call was a createModel(name) on c that returned.
JustCreated(t, c, name) ==
    /\ calls[t].pc = "done"
    /\ calls[t].op = "createModel"
    /\ calls[t].client = c
    /\ calls[t].arg = name
    /\ calls[t].result.type = "handle"

GetModel(t, c, name) ==
    /\ Free(t)
    /\ calls' = [calls EXCEPT ![t] =
                    [Started("getModel", c, name, "lookup", Headers(c))
                        EXCEPT !.prior = JustCreated(t, c, name)]]
    /\ UNCHANGED <<tokenSecret, accepted>>

\* The call once GET /models/{name} has answered: on a rejection the catch
\* throws; otherwise Model.create is called and its promise returned.
GetModelAfterLookupNoReturn(call, status) ==
    IF Resolves(status)
    THEN Finished(Answered(call, status), status, ReturnedUndefined)
    ELSE Finished(call, status, Thrown(ServerRequestFailed))
GetModelAfterLookup(call, status) ==
    IF Resolves(status)
    THEN [Answered(call, status) EXCEPT !.pc = "create",
                      !.factory = FactoryHeaders(call.client), !.sent = @ + 1]
    ELSE Finished(call, status, Thrown(ServerRequestFailed))

LookupResponse(t, status) ==
    LET call == calls[t] IN
    /\ Quiet
    /\ call.pc = "lookup"
    /\ status \in ServiceAnswers(call.headers)
    /\ calls' = [calls EXCEPT ![t] = GetModelAfterLookup(call, status)]
    /\ UNCHANGED <<tokenSecret, accepted>>

\* The create call of createModel or getModel answers: both hand on what
\* Model.create returns or throws (getModel returns the promise unawaited,
\* so its catch does not see the rejection).
FactoryResponse(t, status) ==
    LET call == calls[t] IN
    /\ Quiet
    /\ call.pc = "create"
    /\ status \in ServiceAnswers(call.factory)
    /\ calls' = [calls EXCEPT ![t] =
                    Finished(call, status, FactoryResult(call.arg, call.client, status))]
    /\ UNCHANGED <<tokenSecret, accepted>>

----------------------------------------------------------------------------
(* listModels *)

ListModels(t, c) ==
    /\ Free(t)
    /\ calls' = [calls EXCEPT ![t] = Started("listModels", c, none, "list", Headers(c))]
    /\ UNCHANGED <<tokenSecret, accepted>>

\* Promise.all: the value of the promise fulfilled j-th goes to the index
\* of that promise, order[j].
PromiseAllByCompletion(values, order) == values
PromiseAll(values, order) ==
    [i \in 1..Len(order) |-> values[CHOOSE j \in 1..Len(order) : order[j] = i]]

\* The call once GET /models has answered with `names`: one Model.create per
\* name, all started before any is awaited.
ListModelsAfterList(call, status, names) ==
    IF ~Resolves(status) THEN Finished(call, status, Thrown(ServerRequestFailed))
    ELSE IF names = <<>>
    THEN Finished(Answered(call, status), status, ReturnedList(<<>>))
    ELSE [Answered(call, status) EXCEPT !.pc = "all", !.listing = names,
                      !.factory = FactoryHeaders(call.client),
                      !.sent = @ + Len(names)]

ModelsResponse(t, status, names) ==
    LET call == calls[t] IN
    /\ Quiet
    /\ call.pc = "list"
    /\ call.op = "listModels"
    /\ status \in ServiceAnswers(call.headers)
    /\ Resolves(status) \/ names = <<>>
    /\ calls' = [calls EXCEPT ![t] = ListModelsAfterList(call, status, names)]
    /\ UNCHANGED <<tokenSecret, accepted>>

\* The call once the i-th Model.create has settled: a rejection rejects
\* Promise.all, which the catch turns into the request error; the last
\* fulfilment fulfils it with the handles.
ListModelsAfterFactory(call, i, status) ==
    LET order == Append(call.order, i)
        values == [j \in 1..Len(order) |->
                      FactoryResult(call.listing[order[j]], call.client, status).handle]
    IN  IF ~Resolves(status)
        THEN Finished([call EXCEPT !.listing = <<>>, !.order = <<>>], status,
                      Thrown(ServerRequestFailed))
        ELSE IF Len(order) < Len(call.listing)
        THEN [call EXCEPT !.order = order]
        ELSE Finished([call EXCEPT !.order = order], status,
                      ReturnedList(PromiseAll(values, order)))

AllResponse(t, i, status) ==
    LET call == calls[t] IN
    /\ Quiet
    /\ call.pc = "all"
    /\ i \in 1..Len(call.listing)
    /\ \A j \in 1..Len(call.order) : call.order[j] # i
    /\ status \in ServiceAnswers(call.factory)
    /\ calls' = [calls EXCEPT ![t] = ListModelsAfterFactory(call, i, status)]
    /\ UNCHANGED <<tokenSecret, accepted>>

----------------------------------------------------------------------------
(* getData, listData *)

Includes(names, name) == \E i \in 1..Len(names) : names[i] = name

DataNotFound(name) == "Data " \o name \o " not found"

\* The try block of getData after the listing has arrived.
GetDataTryFirst(name, names, c) ==
    IF names # <<>> THEN Returned(DataHandle(names[1], c)) ELSE Thrown(DataNotFound(name))
GetDataTry(name, names, c) ==
    IF Includes(names, name)
    THEN Returned(DataHandle(name, c))
    ELSE Thrown(DataNotFound(name))

\* The catch block of getData, around the request and the try block alike.
GetDataCatch(outcome) ==
    IF outcome.type = "error" THEN Thrown(ServerRequestFailed) ELSE outcome

GetDataResult(name, names, c, status) ==
    IF ~Resolves(status) THEN GetDataCatch(Thrown(AxiosError))
    ELSE GetDataCatch(GetDataTry(name, names, c))

GetData(t, c, name) ==
    /\ Free(t)
    /\ calls' = [calls EXCEPT ![t] = Started("getData", c, name, "list", Headers(c))]
    /\ UNCHANGED <<tokenSecret, accepted>>

GetDataResponse(t, status, names) ==
    LET call == calls[t] IN
    /\ Quiet
    /\ call.pc = "list"
    /\ call.op = "getData"
    /\ status \in ServiceAnswers(call.headers)
    /\ Resolves(status) \/ names = <<>>
    /\ calls' = [calls EXCEPT ![t] =
                    Finished([Answered(call, status) EXCEPT !.listing = names], status,
                             GetDataResult(call.arg, names, call.client, status))]
    /\ UNCHANGED <<tokenSecret, accepted>>

ListDataResultPartial(names, c, status) ==
    IF ~Resolves(status) THEN ReturnedList(<<>>)
    ELSE ReturnedList([i \in 1..Len(names) |-> DataHandle(names[i], c)])
ListDataResult(names, c, status) ==
    IF ~Resolves(status) THEN Thrown(ConnectFailed)
    ELSE ReturnedList([i \in 1..Len(names) |-> DataHandle(names[i], c)])

ListData(t, c) ==
    /\ Free(t)
    /\ calls' = [calls EXCEPT ![t] = Started("listData", c, none, "list", Headers(c))]
    /\ UNCHANGED <<tokenSecret, accepted>>

ListDataResponse(t, status, names) ==
    LET call == calls[t] IN
    /\ Quiet
    /\ call.pc = "list"
    /\ call.op = "listData"
    /\ status \in ServiceAnswers(call.headers)
    /\ Resolves(status) \/ names = <<>>
    /\ calls' = [calls EXCEPT ![t] =
                    Finished([Answered(call, status) EXCEPT !.listing = names], status,
                             ListDataResult(names, call.client, status))]
    /\ UNCHANGED <<tokenSecret, accepted>>

----------------------------------------------------------------------------
(* The specification *)

Next ==
    \/ \E t \in Callers : Return(t)
    \/ \E t \in Callers, c \in Clients, secret \in Secrets : SetToken(t, c, secret)
    \/ \E t \in Callers, status \in Statuses : AccountResponse(t, status)
    \/ \E t \in Main, c \in Clients, name \in Names : CreateModel(t, c, name)
    \/ \E t \in Main, c \in Clients, name \in Names : AddData(t, c, name)
    \/ \E t \in Main, c \in Clients, name \in Names : GetModel(t, c, name)
    \/ \E t \in Main, status \in Statuses : LookupResponse(t, status)
    \/ \E t \in Main, status \in Statuses : FactoryResponse(t, status)
    \/ \E t \in Main, c \in Clients : ListModels(t, c)
    \/ \E t \in Main, status \in Statuses, names \in Listings :
          ModelsResponse(t, status, names)
    \/ \E t \in Main, i \in 1..MaxList, status \in Statuses : AllResponse(t, i, status)
    \/ \E t \in Main, c \in Clients, name \in Names : GetData(t, c, name)
    \/ \E t \in Main, status \in Statuses, names \in Listings :
          GetDataResponse(t, status, names)
    \/ \E t \in Main, c \in Clients : ListData(t, c)
    \/ \E t \in Main, status \in Statuses, names \in Listings :
          ListDataResponse(t, status, names)

Spec == Init /\ [][Next]_vars

----------------------------------------------------------------------------
(* Properties *)

Done(t) == calls[t].pc = "done"

\* The operations that send a request of their own with the stored token.
Lookups == {"getModel", "listModels", "getData", "listData"}

\* The error kinds of the specification, as the messages the code throws.
AuthenticationError == {InvalidToken}
ServerRequestError == {ServerRequestFailed, ConnectFailed, FactoryFailed}

\* The account check of caller t's setToken came back with status 200.
Accepted(t) ==
    /\ Done(t)
    /\ calls[t].op = "setToken"
    /\ calls[t].settled = "resolved"
    /\ calls[t].status = HTTP_OK

\* C1: a setToken whose account check ends in anything but status 200 throws
\* an AuthenticationError and leaves every stored token as it was.
C1_RejectedTokenIsAuthenticationError ==
    [][\A t \in Callers :
          (/\ calls[t].pc = "account"
           /\ calls'[t].pc = "done"
           /\ ~(calls'[t].settled = "resolved" /\ calls'[t].status = HTTP_OK))
          => /\ calls'[t].result.type = "error"
             /\ calls'[t].result.message \in AuthenticationError
             /\ tokenSecret' = tokenSecret]_vars

\* C2: a setToken(secret) whose account check has status 200 returns true,
\* and as it returns the client's stored token is that secret.
C2_AcceptedTokenStored ==
    \A t \in Callers :
        Accepted(t) => /\ calls[t].result = ReturnedTrue
                       /\ tokenSecret[calls[t].client] = calls[t].arg

C2_Witness ==
    \E t \in Callers :
        /\ Accepted(t)
        /\ calls[t].result = ReturnedTrue
        /\ tokenSecret[calls[t].client] = calls[t].arg
        /\ \E u \in Callers \ {t} : calls[u].pc = "account"

\* C3: getData(name) whose listing arrived without the name throws an error
\* that is not the ServerRequestError of a failed listing request.
C3_NotFoundIsDistinct ==
    \A t \in Callers :
        (/\ Done(t)
         /\ calls[t].op = "getData"
         /\ calls[t].settled = "resolved"
         /\ ~Includes(calls[t].listing, calls[t].arg))
        => /\ calls[t].result.type = "error"
           /\ calls[t].result.message \notin ServerRequestError

\* C4, as claimed: once a client's stored token is set it never changes.
C4_TokenWrittenOnce ==
    [][\A c \in Clients :
          tokenSecret[c] # null => tokenSecret'[c] = tokenSecret[c]]_vars

\* C4, amended: once a client's stored token is set it is never null again,
\* and it changes only in the step in which a later setToken on that client
\* returns true, to the secret of that call.
C4_TokenRewrittenOnlyBySetToken ==
    [][\A c \in Clients :
          tokenSecret[c] # null
          => /\ tokenSecret'[c] # null
             /\ tokenSecret'[c] # tokenSecret[c]
                => \E t \in Callers :
                      /\ calls[t].pc = "account"
                      /\ calls[t].client = c
                      /\ calls'[t].pc = "done"
                      /\ calls'[t].result = ReturnedTrue
                      /\ tokenSecret'[c] = calls[t].arg]_vars

\* A second secret has just been accepted for a client that held another.
C4_Witness ==
    \E t \in Callers :
        /\ Accepted(t)
        /\ accepted[calls[t].client] = Secrets
        /\ tokenSecret[calls[t].client] = calls[t].arg

\* C5: getModel, listModels, getData and listData that end on a rejected
\* request (their own or one of the factory's) throw a ServerRequestError:
\* no handle and no list is returned.
C5_FailedRequestThrows ==
    \A t \in Callers :
        (Done(t) /\ calls[t].op \in Lookups /\ calls[t].settled = "rejected")
        => /\ calls[t].result.type = "error"
           /\ calls[t].result.message \in ServerRequestError

\* listModels has thrown after its listing arrived and a factory call failed.
C5_Witness ==
    \E t \in Callers :
        /\ Done(t)
        /\ calls[t].op = "listModels"
        /\ calls[t].settled = "rejected"
        /\ calls[t].sent > 1
        /\ calls[t].result = Thrown(ServerRequestFailed)

\* C6: listModels whose requests all succeed returns one handle per name of
\* the listing, in the order of the listing, whatever the order in which the
\* factory calls completed.
C6_ListModelsInListingOrder ==
    \A t \in Callers :
        (Done(t) /\ calls[t].op = "listModels" /\ calls[t].settled = "resolved")
        => /\ calls[t].result.type = "list"
           /\ Len(calls[t].result.handles) = Len(calls[t].listing)
           /\ \A i \in 1..Len(calls[t].listing) :
                 /\ calls[t].result.handles[i].name = calls[t].listing[i]
                 /\ calls[t].result.handles[i].client = calls[t].client

\* Two different names, the factory call of the second completed first.
C6_Witness ==
    \E t \in Callers :
        /\ Done(t)
        /\ calls[t].op = "listModels"
        /\ calls[t].result.type = "list"
        /\ Len(calls[t].listing) = 2
        /\ calls[t].listing[1] # calls[t].listing[2]
        /\ calls[t].order = <<2, 1>>
        /\ calls[t].result.handles[1].name = calls[t].listing[1]

\* C7: getData(name) whose listing contains the name returns a Data handle of
\* that name and of the calling client, having sent one request.
C7_GetDataFoundOneRequest ==
    \A t \in Callers :
        (/\ Done(t)
         /\ calls[t].op = "getData"
         /\ calls[t].settled = "resolved"
         /\ Includes(calls[t].listing, calls[t].arg))
        => /\ calls[t].result.type = "handle"
           /\ calls[t].result.handle.kind = "Data"
           /\ calls[t].result.handle.name = calls[t].arg
           /\ calls[t].result.handle.client = calls[t].client
           /\ calls[t].sent = 1

\* The name is the second of the listing, on a client other than the first.
C7_Witness ==
    \E t \in Callers :
        /\ Done(t)
        /\ calls[t].op = "getData"
        /\ Len(calls[t].listing) = 2
        /\ calls[t].listing[1] # calls[t].arg
        /\ calls[t].listing[2] = calls[t].arg
        /\ calls[t].result.type = "handle"
        /\ calls[t].result.handle.name = calls[t].arg
        /\ calls[t].client = "c2"

\* C8: the request that getModel, listModels, getData or listData sends
\* carries the client's stored token of the moment of the call (null when no
\* setToken on the client has succeeded by then), and a call whose request
\* carried null ends in a ServerRequestError.
C8_RequestCarriesTokenOfCall ==
    /\ [][\A t \in Callers :
             (calls'[t] # calls[t] /\ calls'[t].pc \in {"lookup", "list"})
             => /\ calls'[t].op \in Lookups
                /\ calls'[t].headers = tokenSecret[calls'[t].client]
                /\ accepted[calls'[t].client] = {} => calls'[t].headers = null]_vars
    /\ [](\A t \in Callers :
             (calls[t].op \in Lookups /\ calls[t].headers = null)
             => \/ calls[t].pc \in {"lookup", "list"}
                \/ /\ Done(t)
                   /\ calls[t].result.type = "error"
                   /\ calls[t].result.message \in ServerRequestError)

\* A call made before any authentication has failed although the client has
\* been authenticated since: its request carried the null of the call.
C8_Witness ==
    \E t \in Callers :
        /\ Done(t)
        /\ calls[t].op \in Lookups
        /\ calls[t].headers = null
        /\ tokenSecret[calls[t].client] # null
        /\ calls[t].result.type = "error"

\* C9: createModel(m) that returns, returns a handle named m; a getModel(m)
\* that follows it on the same client and whose requests succeed returns a
\* handle named m too.
C9_CreateThenGetSameName ==
    \A t \in Callers :
        /\ (Done(t) /\ calls[t].op = "createModel" /\ calls[t].settled = "resolved")
           => /\ calls[t].result.type = "handle"
              /\ calls[t].result.handle.name = calls[t].arg
        /\ (/\ Done(t)
            /\ calls[t].op = "getModel"
            /\ calls[t].prior
            /\ calls[t].settled = "resolved")
           => /\ calls[t].result.type = "handle"
              /\ calls[t].result.handle.kind = "Model"
              /\ calls[t].result.handle.name = calls[t].arg
              /\ calls[t].result.handle.client = calls[t].client

C9_Witness ==
    \E t \in Callers :
        /\ Done(t)
        /\ calls[t].op = "getModel"
        /\ calls[t].prior
        /\ calls[t].sent = 2
        /\ calls[t].result.type = "handle"
        /\ calls[t].result.handle.name = calls[t].arg

\* C10: a client's stored token is null or a secret that a setToken on that
\* client had accepted with status 200, and it changes only in a step in which
\* a setToken on that client returns.
C10_TokenOnlyFromOwnSetToken ==
    /\ [](\A c \in Clients : tokenSecret[c] = null \/ tokenSecret[c] \in accepted[c])
    /\ [][\A c \in Clients :
             tokenSecret'[c] # tokenSecret[c]
             => \E t \in Callers :
                   /\ calls[t].pc = "account"
                   /\ calls[t].client = c
                   /\ calls'[t].pc = "done"]_vars

\* One client has just been authenticated while a setToken on the other,
\* which is still unauthenticated, is in flight.
C10_Witness ==
    \E t \in Callers, u \in Callers :
        /\ Accepted(t)
        /\ calls[u].pc = "account"
        /\ calls[u].client # calls[t].client
        /\ tokenSecret[calls[t].client] = calls[t].arg
        /\ tokenSecret[calls[u].client] = null

====
